---- MODULE Spec2Model ----
(***************************************************************************)
(* Model of the airline-review pipeline of Scrape-NLP-LDA:                 *)
(*   scraping.py    download_airline_reviews, scrape_reviews_from_file     *)
(*   processing.py  process_airline_reviews, consolidate_reviews           *)
(*   storage.py     save_reviews_to_file, load_reviews_df                  *)
(*   nlp.py         full_cleaning, get_sentiment_label, nlp_pipeline,      *)
(*                  create_sentiment_dataframes,                           *)
(*                  analyse_verification_status, analyse_delays            *)
(*   main.py        main_flow (the order of the calls)                     *)
(*                                                                         *)
(* Text is a sequence of one-character strings, so that split, strip,      *)
(* lower and replace are computed character by character as Python does.   *)
(* The file system is a function from paths to file contents.              *)
(***************************************************************************)
EXTENDS Integers, Sequences, FiniteSets, TLC

VARIABLES
    pc,          \* position of the caller (main_flow, or the driver of one function)
    fs,          \* the local file system: path -> content, defined on the files that exist
    next_airline,\* download_airline_reviews: index of the airline its loop is at
    status,      \* this run's GET status code per airline (0: not requested yet)
    reviews,     \* the list handed to save_reviews_to_file (main_flow's `reviews`)
    printed,     \* what read_and_print_reviews printed
    df,          \* what load_reviews_df returned; the table handed to nlp_pipeline
    max_reviews, \* the cap handed to scrape_reviews_from_file
    scraped,     \* what scrape_reviews_from_file returned
    data,        \* the table handed to analyse_delays
    pieces,      \* how many pieces of text a driver has put into data or raw_review
    result_df,   \* what analyse_delays returned
    load_path,   \* the path handed to load_reviews_df
    fetched,     \* this run's response.text per airline (None: not requested yet)
    df_processed,\* the table nlp_pipeline returned
    sentiment_dfs,\* what create_sentiment_dataframes returned
    report,      \* what analyse_verification_status printed, and how it ended
    raw_review,  \* the text handed to full_cleaning
    cleaned      \* the text after each stage of full_cleaning

\* the variables of the sentiment and cleaning stages of nlp.py
nlp_vars == <<df_processed, sentiment_dfs, report, raw_review, cleaned>>

vars == <<pc, fs, next_airline, status, reviews, printed, df, max_reviews, scraped, data,
          pieces, result_df, load_path, fetched, nlp_vars>>

----------------------------------------------------------------------------
(* Bounds of the model.                                                    *)

\* most records in a list handed to save_reviews_to_file by the storage driver
MaxRecords == 3
\* most characters of body text in such a list, all records together
MaxChars == 3
\* most <article> elements of a document handed to scrape_reviews_from_file
\* by its driver
MaxElements == 3
\* most rows of a table handed to analyse_delays by its driver
MaxRows == 2
\* most pieces of text (a word, with or without a space before it, or a
\* letter) in the Clean_Review column of such a table, all rows together
MaxPieces == 2

----------------------------------------------------------------------------
(* Text: Python str as a sequence of characters.                           *)

\* str.strip() with no argument strips whitespace
IsSpace(c) == c \in {" ", "\n", "\t"}

RECURSIVE LStrip(_)
LStrip(s) == IF s # <<>> /\ IsSpace(Head(s)) THEN LStrip(Tail(s)) ELSE s

RECURSIVE RStrip(_)
RStrip(s) ==
    IF s # <<>> /\ IsSpace(s[Len(s)]) THEN RStrip(SubSeq(s, 1, Len(s) - 1)) ELSE s

Strip(s) == RStrip(LStrip(s))

\* str.find for a single character: the first index holding c, 0 when there is none
RECURSIVE FindFrom(_, _, _)
FindFrom(s, c, i) ==
    IF i > Len(s) THEN 0
    ELSE IF s[i] = c THEN i
    ELSE FindFrom(s, c, i + 1)

\* s.rsplit(c, 1) in the place of s.split(c, 1): the split is at the last c
RECURSIVE FindLastFrom(_, _, _)
FindLastFrom(s, c, i) ==
    IF i < 1 THEN 0
    ELSE IF s[i] = c THEN i
    ELSE FindLastFrom(s, c, i - 1)

SplitOnceAtLast(s, c) ==
    LET i == FindLastFrom(s, c, Len(s))
    IN  IF i = 0 THEN <<s>>
        ELSE <<SubSeq(s, 1, i - 1), SubSeq(s, i + 1, Len(s))>>

\* s.split(c, 1): one piece when c does not occur, else the text before the
\* first c and everything after it
SplitOnce(s, c) ==
    LET i == FindFrom(s, c, 1)
    IN  IF i = 0 THEN <<s>>
        ELSE <<SubSeq(s, 1, i - 1), SubSeq(s, i + 1, Len(s))>>

\* s.split(c): every piece between occurrences of c
RECURSIVE SplitAll(_, _)
SplitAll(s, c) ==
    LET i == FindFrom(s, c, 1)
    IN  IF i = 0 THEN <<s>>
        ELSE <<SubSeq(s, 1, i - 1)>> \o SplitAll(SubSeq(s, i + 1, Len(s)), c)

\* the concatenation of a sequence of texts
RECURSIVE Concat(_)
Concat(ss) == IF ss = <<>> THEN <<>> ELSE Head(ss) \o Concat(Tail(ss))

\* the lines of a file's content: the text between line ends; a content that
\* ends with a line end has no further (empty) line after it
FileLines(content) ==
    LET parts == SplitAll(content, "\n")
    IN  IF parts[Len(parts)] = <<>> THEN SubSeq(parts, 1, Len(parts) - 1) ELSE parts

----------------------------------------------------------------------------
(* Literals of the source.                                                 *)

Sep == "|"
NotVerified == <<"N","o","t"," ","V","e","r","i","f","i","e","d">>
HeaderLine == <<"A","i","r","l","i","n","e"," ","N","a","m","e"," ","|"," ","T","i","t","l","e"," ","|"," ","R","a","t","i","n","g"," ","|"," ","V","e","r","i","f","i","e","d"," ","|"," ","R","e","v","i","e","w","_","T","e","x","t">>
FieldSep == <<" ", "|", " ">>
AllReviewsTxt == <<"a","l","l","_","r","e","v","i","e","w","s",".","t","x","t">>
DataAllReviewsTxt == <<"d","a","t","a","/","a","l","l","_","r","e","v","i","e","w","s",".","t","x","t">>

\* a missing value of a loaded table (pandas NaN)
NaN == <<"NaN">>

\* a missing element (Python None)
None == <<"None">>

----------------------------------------------------------------------------
(* storage.py                                                              *)

\* the file system after open(path, "w") ... write(content)
WriteFile(files, path, content) ==
    [p \in (DOMAIN files) \cup {path} |-> IF p = path THEN content ELSE files[p]]

\* lines 45-64: what one iteration of the loop writes for `review`
ReviewLine(review) ==
    IF Len(review) = 4
    THEN LET airline == review[1]
             title == review[2]
             rating == review[3]
             split_review == SplitOnce(review[4], Sep)
             verified == IF Len(split_review) = 2 THEN Strip(split_review[1])
                         ELSE NotVerified
             review_text == IF Len(split_review) = 2 THEN Strip(split_review[2])
                            ELSE review[4]
         IN  airline \o FieldSep \o title \o FieldSep \o rating \o FieldSep
                \o verified \o FieldSep \o review_text \o <<"\n">>
    ELSE <<>>

\* the loop of lines 43-64 with `break` in the place of `continue`: the first
\* record of unexpected format ends the writing
RECURSIVE ReviewLinesStopAtUnexpected(_)
ReviewLinesStopAtUnexpected(rs) ==
    IF rs = <<>> \/ Len(Head(rs)) # 4 THEN <<>>
    ELSE ReviewLine(Head(rs)) \o ReviewLinesStopAtUnexpected(Tail(rs))

\* lines 43-64: the loop over the records, in input order
RECURSIVE ReviewLines(_)
ReviewLines(rs) ==
    IF rs = <<>> THEN <<>> ELSE ReviewLine(Head(rs)) \o ReviewLines(Tail(rs))

\* save_reviews_to_file(reviews, filename): the file system afterwards
save_reviews_to_file(files, rs, filename) ==
    WriteFile(files, filename, HeaderLine \o <<"\n">> \o <<"\n">> \o ReviewLines(rs))

\* read_and_print_reviews(filename): the file opened is the literal
\* "all_reviews.txt" of line 91, whatever filename is; the value is what it prints
read_and_print_reviews(files, filename) ==
    IF AllReviewsTxt \notin DOMAIN files THEN [tag |-> "FileNotFoundError"]
    ELSE [tag |-> "ok", value |-> files[AllReviewsTxt]]

\* pandas.read_csv(path, sep="|", skiprows=[1]) on a file's content: the line
\* numbered 1 (the second) is dropped, blank lines are dropped, the first line
\* left is the header, every other line is a row split at every separator.
\* The first row fixes the width of the table (at least the header's); a shorter
\* row is filled with NaN, a longer one is a ParserError; fields beyond the
\* header's count become the index (the leading ones). Values are kept as the
\* text read (empty text reads as NaN); only line 122 strips the column names.
IsBlankLine(line) == \A i \in 1..Len(line) : IsSpace(line[i])

PadRow(row, width) == row \o [i \in 1..(width - Len(row)) |-> NaN]

ReadField(f) == IF f = <<>> THEN NaN ELSE f

read_csv(content) ==
    LET physical == FileLines(content)
        unskipped == [i \in 1..Len(physical) |-> <<i, physical[i]>>]
        IsKept(e) == e[1] # 2 /\ ~IsBlankLine(e[2])
        kept == SelectSeq(unskipped, IsKept)
    IN  IF kept = <<>> THEN [tag |-> "EmptyDataError"]
        ELSE
        LET names == SplitAll(kept[1][2], Sep)
            raw == [i \in 1..(Len(kept) - 1) |-> SplitAll(kept[i + 1][2], Sep)]
            width == IF raw = <<>> \/ Len(raw[1]) < Len(names) THEN Len(names)
                     ELSE Len(raw[1])
            lead == width - Len(names)
            full == [i \in 1..Len(raw) |->
                        [j \in 1..width |-> ReadField(PadRow(raw[i], width)[j])]]
        IN  IF \E i \in 1..Len(raw) : Len(raw[i]) > width
            THEN [tag |-> "ParserError"]
            ELSE [tag |-> "ok",
                  columns |-> names,
                  index |-> [i \in 1..Len(full) |-> SubSeq(full[i], 1, lead)],
                  rows |-> [i \in 1..Len(full) |-> SubSeq(full[i], lead + 1, width)]]

\* load_reviews_df(file_path): the file read is the literal "all_reviews.txt" of
\* line 121, whatever file_path is; the column names are stripped (line 122)
load_reviews_df(files, file_path) ==
    IF AllReviewsTxt \notin DOMAIN files THEN [tag |-> "FileNotFoundError"]
    ELSE LET t == read_csv(files[AllReviewsTxt])
         IN  IF t.tag # "ok" THEN t
             ELSE [t EXCEPT !.columns = [i \in 1..Len(t.columns) |-> Strip(t.columns[i])]]

----------------------------------------------------------------------------
(* The driver of storage.py: a caller builds any list of records, well      *)
(* formed or not, with any body text over Chars, saves it and loads it.     *)

Chars == {"v", " ", "|", "\n"}
Airline1 == <<"B", "A">>
Titles == {<<"t">>}
Rating1 == <<"5">>

\* the records a caller starts from: well-formed ones with an empty body, and
\* records of 3 and of 5 elements
FreshRecords ==
    {<<Airline1, title, Rating1, <<>>>> : title \in Titles}
        \cup {<<Airline1, <<"t">>, Rating1>>,
              <<Airline1, <<"t">>, Rating1, <<"v">>, <<"x">>>>}

RECURSIVE BodyChars(_)
BodyChars(rs) ==
    IF rs = <<>> THEN 0
    ELSE (IF Len(Head(rs)) = 4 THEN Len(Head(rs)[4]) ELSE 0) + BodyChars(Tail(rs))

NoTable == [tag |-> "none"]

InitStorage ==
    /\ pc = "build"
    /\ fs = <<>>
    /\ next_airline = 0
    /\ status = <<>>
    /\ reviews = <<>>
    /\ printed = <<>>
    /\ df = NoTable
    /\ max_reviews = 0
    /\ scraped = <<>>
    /\ data = <<>>
    /\ pieces = 0
    /\ result_df = <<>>
    /\ load_path = None
    /\ fetched = <<>>
    /\ df_processed = <<>>
    /\ sentiment_dfs = <<>>
    /\ report = <<>>
    /\ raw_review = <<>>
    /\ cleaned = <<>>

\* the caller appends one more record to the list
InputRecord ==
    /\ pc = "build"
    /\ Len(reviews) < MaxRecords
    /\ \E r \in FreshRecords : reviews' = Append(reviews, r)
    /\ UNCHANGED <<pc, fs, next_airline, status, printed, df, max_reviews, scraped, data, pieces, result_df, load_path, fetched, nlp_vars>>

\* the caller appends one more character to the body of the last record
InputChar ==
    /\ pc = "build"
    /\ reviews # <<>>
    /\ Len(reviews[Len(reviews)]) = 4
    /\ BodyChars(reviews) < MaxChars
    /\ \E c \in Chars :
          reviews' = [reviews EXCEPT ![Len(reviews)][4] = Append(@, c)]
    /\ UNCHANGED <<pc, fs, next_airline, status, printed, df, max_reviews, scraped, data, pieces, result_df, load_path, fetched, nlp_vars>>

\* save_reviews_to_file(reviews, filename)
SaveReviews ==
    /\ pc = "build"
    /\ \E filename \in {AllReviewsTxt, DataAllReviewsTxt} :
          fs' = save_reviews_to_file(fs, reviews, filename)
    /\ pc' = "saved"
    /\ UNCHANGED <<next_airline, status, reviews, printed, df, max_reviews, scraped, data, pieces, result_df, load_path, fetched, nlp_vars>>

\* load_reviews_df(file_path)
LoadReviews ==
    /\ pc = "saved"
    /\ \E path \in {AllReviewsTxt, DataAllReviewsTxt} :
          /\ load_path' = path
          /\ df' = load_reviews_df(fs, path)
    /\ pc' = "loaded"
    /\ UNCHANGED <<fs, next_airline, status, reviews, printed, max_reviews, scraped, data,
                   pieces, result_df, fetched, nlp_vars>>

NextStorage == InputRecord \/ InputChar \/ SaveReviews \/ LoadReviews

SpecStorage == InitStorage /\ [][NextStorage]_vars

----------------------------------------------------------------------------
(* Claims about storage.py, checked under SpecStorage.                     *)

ReviewPaths == {AllReviewsTxt, DataAllReviewsTxt}

IsWellFormed(r) == Len(r) = 4

Saved == pc \in {"saved", "loaded"}

SetMin(S) == CHOOSE x \in S : \A y \in S : x <= y
SetMax(S) == CHOOSE x \in S : \A y \in S : y <= x

\* the positions of the separator in a text
SepPositions(s) == {i \in 1..Len(s) : s[i] = Sep}

\* a text without its leading and trailing whitespace
Trimmed(s) ==
    LET solid == {i \in 1..Len(s) : ~IsSpace(s[i])}
    IN  IF solid = {} THEN <<>> ELSE SubSeq(s, SetMin(solid), SetMax(solid))

\* the Verified and Review_Text fields the specification gives a body
ExpectedVerified(body) ==
    IF SepPositions(body) = {} THEN NotVerified
    ELSE Trimmed(SubSeq(body, 1, SetMin(SepPositions(body)) - 1))

ExpectedReviewText(body) ==
    IF SepPositions(body) = {} THEN body
    ELSE Trimmed(SubSeq(body, SetMin(SepPositions(body)) + 1, Len(body)))

ExpectedLine(r) ==
    r[1] \o FieldSep \o r[2] \o FieldSep \o r[3] \o FieldSep
        \o ExpectedVerified(r[4]) \o FieldSep \o ExpectedReviewText(r[4]) \o <<"\n">>

WellFormedOf(rs) == SelectSeq(rs, IsWellFormed)

\* C1: every record line of a saved file, the lines after the header and the
\* blank line, has exactly 5 fields when split on the pipe, i.e. holds exactly
\* 4 pipes, whatever the title and the body are.
C1_EveryRecordLineHasFiveFields ==
    Saved =>
        \A p \in ReviewPaths \cap DOMAIN fs :
            \A i \in 3..Len(FileLines(fs[p])) :
                Cardinality(SepPositions(FileLines(fs[p])[i])) = 4

\* C2: saving well-formed records to the file load_reviews_df reads and loading
\* it yields one row per record, in order, with the record's airline, title
\* and rating (up to surrounding whitespace) and the body's two parts split at
\* its first separator.
SameUpToSpace(a, b) == a # NaN /\ Trimmed(a) = Trimmed(b)

C2_RoundTrip ==
    (/\ pc = "loaded"
     /\ AllReviewsTxt \in DOMAIN fs
     /\ \A i \in 1..Len(reviews) : IsWellFormed(reviews[i]))
    => /\ df.tag = "ok"
       /\ Len(df.rows) = Len(reviews)
       /\ \A i \in 1..Len(reviews) :
            /\ SameUpToSpace(df.rows[i][1], reviews[i][1])
            /\ SameUpToSpace(df.rows[i][2], reviews[i][2])
            /\ SameUpToSpace(df.rows[i][3], reviews[i][3])
            /\ SameUpToSpace(df.rows[i][4], ExpectedVerified(reviews[i][4]))
            /\ SameUpToSpace(df.rows[i][5], ExpectedReviewText(reviews[i][4]))

\* C7: a record whose length is not 4 leaves nothing in the file and does not
\* end the call: the file is the header, the blank line and the lines of the
\* well-formed records, all of them, in input order.
C7_UnexpectedRecordsSkipped ==
    Saved =>
        \A p \in ReviewPaths \cap DOMAIN fs :
            fs[p] = HeaderLine \o <<"\n", "\n">>
                      \o Concat([i \in 1..Len(WellFormedOf(reviews)) |->
                                    ReviewLine(WellFormedOf(reviews)[i])])

\* a saved list with a record of unexpected length between two well-formed ones
C7_Witness ==
    /\ pc = "saved"
    /\ Len(reviews) = 3
    /\ IsWellFormed(reviews[1]) /\ reviews[1][4] # <<>>
    /\ ~IsWellFormed(reviews[2])
    /\ IsWellFormed(reviews[3]) /\ reviews[3][4] # <<>>

\* C8: the line written for a well-formed record carries Verified "Not
\* Verified" and the body unmodified when the body has no separator, and
\* otherwise the trimmed text before the first separator and the trimmed text
\* after it, later separators included.
C8_VerifiedSplitAtFirstSeparator ==
    Saved =>
        \A p \in ReviewPaths \cap DOMAIN fs :
            fs[p] = HeaderLine \o <<"\n", "\n">>
                      \o Concat([i \in 1..Len(WellFormedOf(reviews)) |->
                                    ExpectedLine(WellFormedOf(reviews)[i])])

\* a saved list with a body without separator and a body with two separators,
\* the first after whitespace that is trimmed
C8_Witness ==
    /\ pc = "saved"
    /\ \E i \in 1..Len(reviews) :
          /\ IsWellFormed(reviews[i])
          /\ SepPositions(reviews[i][4]) = {}
    /\ \E i \in 1..Len(reviews) :
          /\ IsWellFormed(reviews[i])
          /\ Cardinality(SepPositions(reviews[i][4])) >= 2
          /\ IsSpace(reviews[i][4][1])

\* the table that the content of a review file holds: the rows read_csv finds
\* in it, under the stripped column names
TableOfContent(content) ==
    LET t == read_csv(content)
    IN  IF t.tag # "ok" THEN t
        ELSE [t EXCEPT !.columns = [i \in 1..Len(t.columns) |-> Strip(t.columns[i])]]

\* C14: load_reviews_df(file_path) builds its table from the file at the path
\* it is given: when a file exists at that path the result is the table of
\* that file's content, and when none exists there the open fails.
C14_LoadsFromPathGiven ==
    pc = "loaded" =>
        IF load_path \in DOMAIN fs
        THEN df = TableOfContent(fs[load_path])
        ELSE df.tag = "FileNotFoundError"

----------------------------------------------------------------------------
(* scraping.py                                                             *)

\* line 8: the list of airlines
airlines ==
    << <<"B","r","i","t","i","s","h"," ","A","i","r","w","a","y","s">>,
       <<"L","u","f","t","h","a","n","s","a">>,
       <<"E","m","i","r","a","t","e","s">>,
       <<"Q","a","t","a","r">>,
       <<"S","i","n","g","a","p","o","r","e"," ","A","i","r","l","i","n","e","s">>,
       <<"A","m","e","r","i","c","a","n"," ","A","i","r","l","i","n","e","s">> >>

UpperCase == <<"A","B","C","D","E","F","G","H","I","J","K","L","M","N","O","P","Q","R","S","T","U","V","W","X","Y","Z">>
LowerCase == <<"a","b","c","d","e","f","g","h","i","j","k","l","m","n","o","p","q","r","s","t","u","v","w","x","y","z">>

\* str.lower(), character by character
LowerChar(c) ==
    IF \E k \in 1..Len(UpperCase) : UpperCase[k] = c
    THEN LowerCase[CHOOSE k \in 1..Len(UpperCase) : UpperCase[k] = c]
    ELSE c

Lower(s) == [i \in 1..Len(s) |-> LowerChar(s[i])]

\* str.replace(old, new) for single characters
Replace(s, old, new) == [i \in 1..Len(s) |-> IF s[i] = old THEN new ELSE s[i]]

\* lines 41 and 28 of processing.py: airline.lower().replace(" ", "-")
FormatAirline(airline) == Replace(Lower(airline), " ", "-")

\* line 48: f"data/{formatted_airline}.html"
DownloadPath(airline) ==
    <<"d","a","t","a","/">> \o FormatAirline(airline) \o <<".","h","t","m","l">>

\* line 45: the status code of a successful request
StatusOk == 200

\* line 55: the default of max_reviews
DefaultMaxReviews == 20

NoTitle == <<"N","o"," ","T","i","t","l","e">>
NoRating == <<"N","o"," ","R","a","t","i","n","g">>
NoReview == <<"N","o"," ","R","e","v","i","e","w">>

\* A parsed HTML document is the sequence, in document order, of its <article>
\* elements: the class says whether it is a review container
\* (comp_media-review-rated), h2, rating and text are the texts of the first
\* <h2>, <div class="rating-10"> and <div class="text_content"> in it, None
\* when there is none.
IsReviewContainer(element) == element.class = "comp_media-review-rated"

\* lines 93-102: the record extracted from one article
ExtractReview(article) ==
    LET title == IF article.h2 # None THEN article.h2 ELSE NoTitle
        rating == IF article.rating # None /\ Strip(article.rating) # <<>>
                  THEN <<Strip(article.rating)[1]>>
                  ELSE NoRating
        review_text == IF article.text # None THEN article.text ELSE NoReview
    IN  <<title, rating, review_text>>

\* articles[:max_reviews + 1] in the place of articles[:max_reviews]
SliceToOneMore(seq, n) ==
    IF n + 1 >= 0 THEN SubSeq(seq, 1, IF n + 1 < Len(seq) THEN n + 1 ELSE Len(seq))
    ELSE SubSeq(seq, 1, Len(seq) + n + 1)

\* seq[:n] of Python: the first n elements, all of them when there are fewer;
\* for a negative n all but the last -n
SliceTo(seq, n) ==
    IF n >= 0 THEN SubSeq(seq, 1, IF n < Len(seq) THEN n ELSE Len(seq))
    ELSE SubSeq(seq, 1, Len(seq) + n)

\* scrape_reviews_from_file(file_path, max_reviews): open() raises when the
\* file does not exist
scrape_reviews_from_file(files, file_path, max) ==
    IF file_path \notin DOMAIN files THEN [tag |-> "FileNotFoundError"]
    ELSE LET articles == SelectSeq(files[file_path], IsReviewContainer)
             taken == SliceTo(articles, max)
         IN  [tag |-> "ok", value |-> [i \in 1..Len(taken) |-> ExtractReview(taken[i])]]

----------------------------------------------------------------------------
(* processing.py                                                           *)

\* lines 28-30 without the .lower() of line 28
ProcessPathKeepingCase(airline) ==
    <<"d","a","t","a","/">> \o Replace(airline, " ", "-") \o <<".","h","t","m","l">>

\* line 30: "data/" + formatted_airline + ".html"
ProcessPath(airline) ==
    <<"d","a","t","a","/">> \o FormatAirline(airline) \o <<".","h","t","m","l">>

\* process_airline_reviews without the os.path.exists test of line 34
process_airline_reviews_unguarded(files, airline) ==
    LET extracted_reviews ==
            scrape_reviews_from_file(files, ProcessPath(airline), DefaultMaxReviews)
    IN  IF extracted_reviews.tag # "ok" THEN extracted_reviews
        ELSE [tag |-> "ok",
              value |-> [i \in 1..Len(extracted_reviews.value) |->
                            <<airline>> \o extracted_reviews.value[i]]]

\* process_airline_reviews(airline)
process_airline_reviews(files, airline) ==
    IF ProcessPath(airline) \in DOMAIN files
    THEN LET extracted_reviews ==
                 scrape_reviews_from_file(files, ProcessPath(airline), DefaultMaxReviews)
         IN  IF extracted_reviews.tag # "ok" THEN extracted_reviews
             ELSE [tag |-> "ok",
                   value |-> [i \in 1..Len(extracted_reviews.value) |->
                                 <<airline>> \o extracted_reviews.value[i]]]
    ELSE [tag |-> "ok", value |-> <<>>]

\* the loop of consolidate_reviews with all_reviews = reviews + all_reviews in
\* the place of all_reviews.extend(reviews)
RECURSIVE ConsolidateFromPrepending(_, _, _)
ConsolidateFromPrepending(files, k, all_reviews) ==
    IF k > Len(airlines) THEN [tag |-> "ok", value |-> all_reviews]
    ELSE LET r == process_airline_reviews(files, airlines[k])
         IN  IF r.tag # "ok" THEN r
             ELSE ConsolidateFromPrepending(files, k + 1, r.value \o all_reviews)

\* lines 67-69: the loop of consolidate_reviews from the k-th airline on; an
\* exception of process_airline_reviews ends it
RECURSIVE ConsolidateFrom(_, _, _)
ConsolidateFrom(files, k, all_reviews) ==
    IF k > Len(airlines) THEN [tag |-> "ok", value |-> all_reviews]
    ELSE LET r == process_airline_reviews(files, airlines[k])
         IN  IF r.tag # "ok" THEN r
             ELSE ConsolidateFrom(files, k + 1, all_reviews \o r.value)

\* consolidate_reviews()
consolidate_reviews(files) == ConsolidateFrom(files, 1, <<>>)

----------------------------------------------------------------------------
(* The site, as far as the pipeline sees it: what a GET of an airline's     *)
(* review page may answer.                                                 *)

Review(h2, rating, text) ==
    [class |-> "comp_media-review-rated", h2 |-> h2, rating |-> rating, text |-> text]

OtherArticle == [class |-> "other", h2 |-> <<"x">>, rating |-> None, text |-> None]

\* the pages the site may serve, per airline of the list (the first airline's
\* page has two versions, so that a page fetched earlier differs from today's)
SitePages ==
    << { << Review(<<"g">>, <<"9">>, <<"v", "|", "g">>), OtherArticle,
            Review(None, None, None) >>,
         << Review(<<"n">>, <<" ", "1", " ">>, <<"n">>) >> },
       { << Review(<<"l">>, <<>>, <<"l">>) >> },
       { << OtherArticle >> },
       { << Review(<<"q">>, <<"7">>, <<"v", "|", "q", "|", "q">>) >> },
       { << Review(<<"s">>, <<"5">>, <<" ", "s">>) >> },
       { << Review(<<"m">>, <<"3">>, <<"v", " ", "|", " ", "m">>),
            Review(<<"m">>, <<"2">>, <<"m">>) >> } >>

\* the page that comes with a status other than 200
ErrorPage == << OtherArticle >>

\* status codes other than 200 the site answers with
FailureStatuses == {404}

Responses(k) ==
    {[status_code |-> StatusOk, text |-> page] : page \in SitePages[k]}
        \cup {[status_code |-> code, text |-> ErrorPage] : code \in FailureStatuses}

----------------------------------------------------------------------------
(* scraping.py, download_airline_reviews: one iteration of its loop         *)

\* lines 44-52 with the file written whatever the status code is
download_always_writes(files, airline, response) ==
    WriteFile(files, DownloadPath(airline), response.text)

\* lines 44-52: the file system after the response to the GET for `airline`
download(files, airline, response) ==
    IF response.status_code = StatusOk
    THEN WriteFile(files, DownloadPath(airline), response.text)
    ELSE files

----------------------------------------------------------------------------
(* main.py, main_flow: the calls in their order, run after run             *)

NotRequested == [k \in 1..Len(airlines) |-> 0]

NothingFetched == [k \in 1..Len(airlines) |-> None]

Init ==
    /\ pc = "start"
    /\ fs = <<>>
    /\ next_airline = 0
    /\ status = NotRequested
    /\ reviews = <<>>
    /\ printed = <<>>
    /\ df = NoTable
    /\ max_reviews = 0
    /\ scraped = <<>>
    /\ data = <<>>
    /\ pieces = 0
    /\ result_df = <<>>
    /\ load_path = None
    /\ fetched = NothingFetched
    /\ df_processed = <<>>
    /\ sentiment_dfs = <<>>
    /\ report = <<>>
    /\ raw_review = <<>>
    /\ cleaned = <<>>

\* a run begins (lines 112-116): task_check_robots, whose GET may raise, then
\* task_download_reviews enters its loop; nothing of an earlier run is left but
\* the files
StartRun ==
    /\ pc \in {"start", "done", "aborted"}
    /\ \/ pc' = "download" /\ next_airline' = 1
       \/ pc' = "aborted" /\ next_airline' = 0
    /\ status' = NotRequested
    /\ reviews' = <<>>
    /\ printed' = <<>>
    /\ df' = NoTable
    /\ load_path' = None
    /\ fetched' = NothingFetched
    /\ UNCHANGED <<fs, max_reviews, scraped, data, pieces, result_df, nlp_vars>>

\* scraping.py lines 40-52: one iteration of download_airline_reviews
DownloadAirline ==
    /\ pc = "download"
    /\ \E response \in Responses(next_airline) :
          /\ fs' = download(fs, airlines[next_airline], response)
          /\ status' = [status EXCEPT ![next_airline] = response.status_code]
          /\ fetched' = [fetched EXCEPT ![next_airline] = response.text]
    /\ next_airline' = next_airline + 1
    /\ pc' = IF next_airline = Len(airlines) THEN "consolidate" ELSE "download"
    /\ UNCHANGED <<reviews, printed, df, max_reviews, scraped, data, pieces, result_df,
                   load_path, nlp_vars>>

\* scraping.py line 44: requests.get raises (no connection); nothing catches it
DownloadRaises ==
    /\ pc = "download"
    /\ pc' = "aborted"
    /\ UNCHANGED <<fs, next_airline, status, reviews, printed, df, max_reviews,
                   scraped, data, pieces, result_df, load_path, fetched, nlp_vars>>

\* main.py line 119: reviews = task_consolidate_reviews()
TaskConsolidateReviews ==
    /\ pc = "consolidate"
    /\ LET r == consolidate_reviews(fs)
       IN  IF r.tag = "ok"
           THEN reviews' = r.value /\ pc' = "save"
           ELSE reviews' = reviews /\ pc' = "aborted"
    /\ UNCHANGED <<fs, next_airline, status, printed, df, max_reviews, scraped,
                   data, pieces, result_df, load_path, fetched, nlp_vars>>

\* main.py lines 120 and 40: save_reviews_to_file(reviews, filename="all_reviews.txt")
TaskSaveReviews ==
    /\ pc = "save"
    /\ fs' = save_reviews_to_file(fs, reviews, AllReviewsTxt)
    /\ pc' = "print"
    /\ UNCHANGED <<next_airline, status, reviews, printed, df, max_reviews, scraped,
                   data, pieces, result_df, load_path, fetched, nlp_vars>>

\* main.py line 123: read_and_print_reviews("data/all_reviews.txt")
ReadAndPrintReviews ==
    /\ pc = "print"
    /\ LET r == read_and_print_reviews(fs, DataAllReviewsTxt)
       IN  IF r.tag = "ok"
           THEN printed' = r.value /\ pc' = "load"
           ELSE printed' = printed /\ pc' = "aborted"
    /\ UNCHANGED <<fs, next_airline, status, reviews, df, max_reviews, scraped,
                   data, pieces, result_df, load_path, fetched, nlp_vars>>

\* main.py lines 124 and 45: df = load_reviews_df("data/all_reviews.txt"); an
\* exception of the load ends the run
TaskLoadReviewsDf ==
    /\ pc = "load"
    /\ load_path' = DataAllReviewsTxt
    /\ df' = load_reviews_df(fs, DataAllReviewsTxt)
    /\ pc' = IF df'.tag = "ok" THEN "done" ELSE "aborted"
    /\ UNCHANGED <<fs, next_airline, status, reviews, printed, max_reviews, scraped,
                   data, pieces, result_df, fetched, nlp_vars>>

Next ==
    \/ StartRun
    \/ DownloadAirline
    \/ DownloadRaises
    \/ TaskConsolidateReviews
    \/ TaskSaveReviews
    \/ ReadAndPrintReviews
    \/ TaskLoadReviewsDf

Spec == Init /\ [][Next]_vars

----------------------------------------------------------------------------
(* Claims about the pipeline, checked under Spec.                          *)

\* consolidate_reviews of this run has returned
Consolidated == pc \in {"save", "print", "load", "done"}

\* download_airline_reviews of this run has returned
Downloaded == pc = "consolidate" \/ Consolidated

\* the records of the consolidated list that carry an airline's name
RecordsOf(airline) ==
    LET IsOfAirline(r) == r[1] = airline
    IN  SelectSeq(reviews, IsOfAirline)

\* the review containers of a document, in document order
ContainerPositions(document) ==
    {i \in 1..Len(document) : document[i].class = "comp_media-review-rated"}

RECURSIVE NthSmallest(_, _)
NthSmallest(S, n) ==
    IF n = 1 THEN SetMin(S) ELSE NthSmallest(S \ {SetMin(S)}, n - 1)

Container(document, i) == document[NthSmallest(ContainerPositions(document), i)]

SmallerOf(a, b) == IF a < b THEN a ELSE b

\* what an airline is to contribute: nothing without a cached document, else
\* one record per review container of the cached document (20 at most), in
\* document order, each the extracted record after the airline's name
ExpectedContribution(files, airline) ==
    IF ProcessPath(airline) \notin DOMAIN files THEN <<>>
    ELSE LET document == files[ProcessPath(airline)]
             n == SmallerOf(DefaultMaxReviews, Cardinality(ContainerPositions(document)))
         IN  [i \in 1..n |-> <<airline>> \o ExtractReview(Container(document, i))]

\* C3 as claimed: once the downloads of a run are over every airline has been
\* requested, and an airline whose GET returned a status other than 200 has no
\* record in the consolidated list of that run.
C3_FailedAirlineContributesNothing ==
    /\ Downloaded => \A k \in 1..Len(airlines) : status[k] # 0
    /\ Consolidated =>
          \A k \in 1..Len(airlines) :
              status[k] # StatusOk => RecordsOf(airlines[k]) = <<>>

\* C3 as amended: a GET answered with a status other than 200 writes no file,
\* and the run goes on to the remaining airlines; in the consolidated list of
\* that run the airline has no record when no document of an earlier run is
\* cached for it, and the records of that cached document otherwise.
C3_FailedAirlineKeepsEarlierCache ==
    /\ [][\A k \in 1..Len(airlines) :
            (status[k] = 0 /\ status'[k] \notin {0, StatusOk}) => fs' = fs]_vars
    /\ [](Downloaded => \A k \in 1..Len(airlines) : status[k] # 0)
    /\ [](Consolidated =>
            \A k \in 1..Len(airlines) :
                status[k] # StatusOk =>
                    RecordsOf(airlines[k]) = ExpectedContribution(fs, airlines[k]))

\* a consolidated run with a failed airline that has a cached document and
\* records, a failed airline without document, and a later airline that was
\* fetched and has records
C3_Witness ==
    /\ Consolidated
    /\ \E k, j, m \in 1..Len(airlines) :
          /\ status[k] # StatusOk
          /\ ProcessPath(airlines[k]) \in DOMAIN fs
          /\ RecordsOf(airlines[k]) # <<>>
          /\ status[j] # StatusOk
          /\ ProcessPath(airlines[j]) \notin DOMAIN fs
          /\ m > k /\ m > j
          /\ status[m] = StatusOk
          /\ RecordsOf(airlines[m]) # <<>>

\* C4: for an airline without cached document process_airline_reviews returns
\* the empty list and does not raise, and the consolidated list holds the
\* contribution of every later airline.
C4_MissingDocumentContributesNothing ==
    \A k \in 1..Len(airlines) :
        ProcessPath(airlines[k]) \notin DOMAIN fs =>
            /\ process_airline_reviews(fs, airlines[k]).tag = "ok"
            /\ process_airline_reviews(fs, airlines[k]).value = <<>>
            /\ Consolidated =>
                  \A j \in (k + 1)..Len(airlines) :
                      RecordsOf(airlines[j]) = ExpectedContribution(fs, airlines[j])

\* a consolidated run with an airline without document and records of a later one
C4_Witness ==
    /\ Consolidated
    /\ \E k, j \in 1..Len(airlines) :
          /\ k < j
          /\ ProcessPath(airlines[k]) \notin DOMAIN fs
          /\ RecordsOf(airlines[j]) # <<>>

\* C5: the consolidated list is the concatenation, in the order of the airlines
\* list, of each airline's records in document order, one per extracted record,
\* each the extracted record after the airline's name.
C5_ConsolidatedInDeclarationOrder ==
    Consolidated =>
        reviews = Concat([k \in 1..Len(airlines) |->
                            ExpectedContribution(fs, airlines[k])])

\* a consolidated run where the first and the last airline have two records each
C5_Witness ==
    /\ Consolidated
    /\ Len(RecordsOf(airlines[1])) = 2
    /\ Len(RecordsOf(airlines[Len(airlines)])) = 2
    /\ RecordsOf(airlines[2]) # <<>>

\* the records an airline's document yields: one per review container (20 at
\* most), in document order, each after the airline's name
ExpectedFromDocument(document, airline) ==
    LET n == SmallerOf(DefaultMaxReviews, Cardinality(ContainerPositions(document)))
    IN  [i \in 1..n |-> <<airline>> \o ExtractReview(Container(document, i))]

\* the path checked for each airline of the list, and the two facts about the
\* paths that do not depend on the run
CheckedPaths == [k \in 1..Len(airlines) |-> ProcessPath(airlines[k])]

WrittenPathIsCheckedPath ==
    \A k \in 1..Len(airlines) : DownloadPath(airlines[k]) = CheckedPaths[k]

CheckedPathsDistinct ==
    \A k, j \in 1..Len(airlines) : k # j => CheckedPaths[k] # CheckedPaths[j]

\* C16: the path download_airline_reviews writes for an airline is the path
\* process_airline_reviews checks for it, distinct airlines of the list have
\* distinct paths, and in the consolidated list of a run every airline whose
\* GET returned 200 is found and has the records of the document fetched in
\* that run.
C16_FetchedDocumentIsExtracted ==
    /\ WrittenPathIsCheckedPath
    /\ CheckedPathsDistinct
    /\ Consolidated =>
          \A k \in 1..Len(airlines) :
              status[k] = StatusOk =>
                  /\ CheckedPaths[k] \in DOMAIN fs
                  /\ fs[CheckedPaths[k]] = fetched[k]
                  /\ RecordsOf(airlines[k])
                        = ExpectedFromDocument(fetched[k], airlines[k])

\* a consolidated run, after an earlier run whose saved file differs from what
\* this run consolidated, in which the first airline (its name holds upper
\* case and a space) was fetched and has the one record of today's page, and
\* another airline with upper case and a space was fetched as well
C16_Witness ==
    /\ pc = "save"
    /\ AllReviewsTxt \in DOMAIN fs
    /\ fs[AllReviewsTxt] # save_reviews_to_file(fs, reviews, AllReviewsTxt)[AllReviewsTxt]
    /\ status[1] = StatusOk
    /\ Len(RecordsOf(airlines[1])) = 1
    /\ status[6] = StatusOk
    /\ Len(RecordsOf(airlines[6])) = 2

----------------------------------------------------------------------------
(* The driver of scrape_reviews_from_file: any document of at most          *)
(* MaxElements articles and any cap, negative ones included.               *)

ElementKinds ==
    { OtherArticle,
      Review(<<"a">>, <<"9">>, <<"a">>),
      Review(None, None, None),
      Review(<<"b">>, <<" ">>, <<"b">>) }

ScrapePath == <<"p", ".", "h", "t", "m", "l">>

InitScrape ==
    /\ pc = "scrape"
    /\ \E n \in 0..MaxElements :
          \E document \in [1..n -> ElementKinds] : fs = (ScrapePath :> document)
    /\ max_reviews \in -1..(MaxElements + 1)
    /\ next_airline = 0
    /\ status = <<>>
    /\ reviews = <<>>
    /\ printed = <<>>
    /\ df = NoTable
    /\ scraped = [tag |-> "none"]
    /\ data = <<>>
    /\ pieces = 0
    /\ result_df = <<>>
    /\ load_path = None
    /\ fetched = <<>>
    /\ df_processed = <<>>
    /\ sentiment_dfs = <<>>
    /\ report = <<>>
    /\ raw_review = <<>>
    /\ cleaned = <<>>

\* scrape_reviews_from_file(file_path, max_reviews)
ScrapeReviews ==
    /\ pc = "scrape"
    /\ scraped' = scrape_reviews_from_file(fs, ScrapePath, max_reviews)
    /\ pc' = "scraped"
    /\ UNCHANGED <<fs, next_airline, status, reviews, printed, df, max_reviews,
                   data, pieces, result_df, load_path, fetched, nlp_vars>>

NextScrape == ScrapeReviews

SpecScrape == InitScrape /\ [][NextScrape]_vars

\* C6: for a cap of 0 or more, scrape_reviews_from_file returns as many
\* records as the smaller of the cap and the number of review containers, and
\* the i-th record is the one extracted from the i-th container of the document.
C6_AtMostMaxReviewsInDocumentOrder ==
    (pc = "scraped" /\ max_reviews >= 0) =>
        /\ scraped.tag = "ok"
        /\ Len(scraped.value)
             = SmallerOf(max_reviews, Cardinality(ContainerPositions(fs[ScrapePath])))
        /\ \A i \in 1..Len(scraped.value) :
              scraped.value[i] = ExtractReview(Container(fs[ScrapePath], i))

\* a scraped document with more containers than the cap, which is at least 1,
\* and with another article before its first container
C6_Witness ==
    /\ pc = "scraped"
    /\ max_reviews >= 1
    /\ Cardinality(ContainerPositions(fs[ScrapePath])) > max_reviews
    /\ 1 \notin ContainerPositions(fs[ScrapePath])
    /\ Len(scraped.value) = max_reviews

----------------------------------------------------------------------------
(* nlp.py, analyse_delays                                                  *)

\* str.split() with no argument: the maximal runs of characters that are not
\* whitespace
RECURSIVE SplitWhitespaceFrom(_, _, _)
SplitWhitespaceFrom(s, i, word) ==
    IF i > Len(s) THEN (IF word = <<>> THEN <<>> ELSE <<word>>)
    ELSE IF IsSpace(s[i])
         THEN (IF word = <<>> THEN <<>> ELSE <<word>>) \o SplitWhitespaceFrom(s, i + 1, <<>>)
         ELSE SplitWhitespaceFrom(s, i + 1, Append(word, s[i]))

SplitWhitespace(s) == SplitWhitespaceFrom(s, 1, <<>>)

\* line 275
delay_keywords ==
    << <<"d","e","l","a","y">>,
       <<"d","e","l","a","y","e","d">>,
       <<"l","a","t","e">>,
       <<"c","a","n","c","e","l","l","a","t","i","o","n">>,
       <<"c","a","n","c","e","l","l","e","d">> >>

Contains(seq, x) == \E i \in 1..Len(seq) : seq[i] = x

\* lines 282-284 without the .lower() of line 282
keyword_count_case_sensitive(clean_review) ==
    LET words == SplitWhitespace(clean_review)
    IN  Cardinality({k \in 1..Len(delay_keywords) : Contains(words, delay_keywords[k])})

\* lines 282-284: review_text = row['Clean_Review'].lower();
\* sum(1 for keyword in delay_keywords if keyword in review_text.split())
keyword_count(clean_review) ==
    LET review_text == Lower(clean_review)
        words == SplitWhitespace(review_text)
    IN  Cardinality({k \in 1..Len(delay_keywords) : Contains(words, delay_keywords[k])})

\* the position of an airline's entry in the dictionary, 0 when it has none
RECURSIVE KeyPosition(_, _, _)
KeyPosition(counts, airline, i) ==
    IF i > Len(counts) THEN 0
    ELSE IF counts[i][1] = airline THEN i
    ELSE KeyPosition(counts, airline, i + 1)

\* lines 286-287 with the entry made only for a row that has a keyword
count_row_if_any(counts, row) ==
    LET at == KeyPosition(counts, row.airline, 1)
        n == keyword_count(row.clean_review)
    IN  IF n = 0 THEN counts
        ELSE IF at = 0 THEN Append(counts, <<row.airline, n>>)
        ELSE [counts EXCEPT ![at] = <<row.airline, counts[at][2] + n>>]

\* lines 281-287, one iteration: airline_keyword_counts (a dict, kept in
\* insertion order) after the row
count_row(counts, row) ==
    LET at == KeyPosition(counts, row.airline, 1)
        n == keyword_count(row.clean_review)
    IN  IF at = 0 THEN Append(counts, <<row.airline, 0 + n>>)
        ELSE [counts EXCEPT ![at] = <<row.airline, counts[at][2] + n>>]

RECURSIVE CountRows(_, _)
CountRows(counts, rows) ==
    IF rows = <<>> THEN counts ELSE CountRows(count_row(counts, Head(rows)), Tail(rows))

IsNegative(row) == row.sentiment = "Negative"

\* analyse_delays(data): the rows of the result, (Airline Name, Delay_Keyword_Count)
analyse_delays(table) == CountRows(<<>>, SelectSeq(table, IsNegative))

----------------------------------------------------------------------------
(* The driver of analyse_delays: any table of at most MaxRows rows whose     *)
(* Clean_Review texts are made of at most MaxPieces pieces.                  *)

TextPieces ==
    { <<"l","a","t","e">>, <<" ","l","a","t","e">>, <<" ","d","e","l","a","y">>,
      <<"L","a","t","e">>, <<"s">> }

FreshRows ==
    {[airline |-> a, sentiment |-> t, clean_review |-> <<>>] :
        a \in {<<"X">>, <<"Y">>}, t \in {"Negative", "Positive"}}

InitDelays ==
    /\ pc = "build"
    /\ data = <<>>
    /\ pieces = 0
    /\ result_df = <<>>
    /\ fs = <<>>
    /\ next_airline = 0
    /\ status = <<>>
    /\ reviews = <<>>
    /\ printed = <<>>
    /\ df = NoTable
    /\ max_reviews = 0
    /\ scraped = <<>>
    /\ load_path = None
    /\ fetched = <<>>
    /\ df_processed = <<>>
    /\ sentiment_dfs = <<>>
    /\ report = <<>>
    /\ raw_review = <<>>
    /\ cleaned = <<>>

\* the caller appends a row to the table
InputRow ==
    /\ pc = "build"
    /\ Len(data) < MaxRows
    /\ \E row \in FreshRows : data' = Append(data, row)
    /\ UNCHANGED <<pc, fs, next_airline, status, reviews, printed, df, max_reviews,
                   scraped, pieces, result_df, load_path, fetched, nlp_vars>>

\* the caller appends a piece of text to the Clean_Review of the last row
InputPiece ==
    /\ pc = "build"
    /\ data # <<>>
    /\ pieces < MaxPieces
    /\ \E piece \in TextPieces :
          data' = [data EXCEPT ![Len(data)].clean_review = @ \o piece]
    /\ pieces' = pieces + 1
    /\ UNCHANGED <<pc, fs, next_airline, status, reviews, printed, df, max_reviews,
                   scraped, result_df, load_path, fetched, nlp_vars>>

\* analyse_delays(data)
AnalyseDelays ==
    /\ pc = "build"
    /\ result_df' = analyse_delays(data)
    /\ pc' = "analysed"
    /\ UNCHANGED <<fs, next_airline, status, reviews, printed, df, max_reviews,
                   scraped, data, pieces, load_path, fetched, nlp_vars>>

NextDelays == InputRow \/ InputPiece \/ AnalyseDelays

SpecDelays == InitDelays /\ [][NextDelays]_vars

----------------------------------------------------------------------------
(* Claims about analyse_delays, checked under SpecDelays.                  *)

IsKeyword(word) == \E k \in 1..Len(delay_keywords) : delay_keywords[k] = word

\* the whitespace-separated tokens of the lower-cased text
TokensOf(text) == SplitWhitespace(Lower(text))

\* how many tokens of the text are keywords
KeywordTokens(text) ==
    LET tokens == TokensOf(text)
    IN  Cardinality({i \in 1..Len(tokens) : IsKeyword(tokens[i])})

\* how many keywords are tokens of the text
KeywordsPresent(text) ==
    LET tokens == TokensOf(text)
    IN  Cardinality({k \in 1..Len(delay_keywords) :
                        \E i \in 1..Len(tokens) : tokens[i] = delay_keywords[k]})

RECURSIVE SumSeq(_)
SumSeq(ns) == IF ns = <<>> THEN 0 ELSE Head(ns) + SumSeq(Tail(ns))

\* the negative-sentiment rows of an airline, in row order
NegativeRowsOf(airline) ==
    LET IsNegativeOf(row) == row.sentiment = "Negative" /\ row.airline = airline
    IN  SelectSeq(data, IsNegativeOf)

NegativeAirlines ==
    {data[i].airline : i \in {j \in 1..Len(data) : data[j].sentiment = "Negative"}}

\* C9 as claimed: an airline's Delay_Keyword_Count is the sum, over its
\* negative rows, of the number of tokens of the lower-cased Clean_Review that
\* equal a keyword.
C9_CountsKeywordTokens ==
    pc = "analysed" =>
        \A i \in 1..Len(result_df) :
            LET rows == NegativeRowsOf(result_df[i][1])
            IN  result_df[i][2]
                  = SumSeq([j \in 1..Len(rows) |-> KeywordTokens(rows[j].clean_review)])

\* C9 as amended: an airline's Delay_Keyword_Count is the sum, over its
\* negative rows, of the number of keywords that occur among the tokens of the
\* lower-cased Clean_Review, each keyword counted once per row however often it
\* occurs.
C9_CountsKeywordsPresent ==
    pc = "analysed" =>
        \A i \in 1..Len(result_df) :
            LET rows == NegativeRowsOf(result_df[i][1])
            IN  result_df[i][2]
                  = SumSeq([j \in 1..Len(rows) |-> KeywordsPresent(rows[j].clean_review)])

\* an analysed table with a negative row that repeats a keyword, so that the
\* two ways of counting differ
C9_Witness ==
    /\ pc = "analysed"
    /\ \E i \in 1..Len(data) :
          /\ data[i].sentiment = "Negative"
          /\ KeywordTokens(data[i].clean_review) > KeywordsPresent(data[i].clean_review)
          /\ \E j \in 1..Len(result_df) :
                result_df[j][1] = data[i].airline /\ result_df[j][2] >= 1

\* C10: the result has exactly one row per airline that has a negative row,
\* those whose negative rows hold no keyword included, none for any other
\* airline, and every count is an integer >= 0.
C10_OneRowPerNegativeAirline ==
    pc = "analysed" =>
        /\ {result_df[i][1] : i \in 1..Len(result_df)} = NegativeAirlines
        /\ Len(result_df) = Cardinality(NegativeAirlines)
        /\ \A i \in 1..Len(result_df) : result_df[i][2] \in Nat

\* an analysed table with an airline whose negative rows hold no keyword and is
\* in the result with count 0, and an airline without negative row that is not
C10_Witness ==
    /\ pc = "analysed"
    /\ \E i \in 1..Len(result_df) : result_df[i][2] = 0
    /\ \E i \in 1..Len(data) :
          /\ data[i].sentiment = "Positive"
          /\ data[i].clean_review # <<>>
          /\ \A j \in 1..Len(result_df) : result_df[j][1] # data[i].airline

----------------------------------------------------------------------------
(* nlp.py: get_sentiment_label, nlp_pipeline (its labelling step),          *)
(* create_sentiment_dataframes, analyse_verification_status                 *)

\* lines 146-153 with the zero score taken by the first branch (score <= 0)
get_sentiment_label_zero_negative(score) ==
    IF score <= 0 THEN "Negative"
    ELSE IF score = 0 THEN "Neutral"
    ELSE "Positive"

\* lines 146-153: get_sentiment_label(score). A score is a float; the model
\* holds it as a whole number of tenths, which has the sign of the float
get_sentiment_label(score) ==
    IF score < 0 THEN "Negative"
    ELSE IF score = 0 THEN "Neutral"
    ELSE "Positive"

\* line 182: df["Sentiment"] = df["Polarity"].apply(get_sentiment_label); a
\* table is the sequence of its rows, each with its index label
nlp_pipeline(table) ==
    [i \in 1..Len(table) |->
        [index |-> table[i].index,
         verified |-> table[i].verified,
         polarity |-> table[i].polarity,
         sentiment |-> get_sentiment_label(table[i].polarity)]]

IsPositive(row) == row.sentiment = "Positive"
IsNeutral(row) == row.sentiment = "Neutral"
IsNotPositive(row) == row.sentiment # "Positive"

\* lines 188-191 with != 'Positive' as the mask of the third table
create_sentiment_dataframes_rest_neutral(table) ==
    <<SelectSeq(table, IsPositive), SelectSeq(table, IsNegative),
      SelectSeq(table, IsNotPositive)>>

\* lines 188-191: create_sentiment_dataframes(df); df[mask] keeps the rows
\* whose mask is True, in the order of df
create_sentiment_dataframes(table) ==
    <<SelectSeq(table, IsPositive), SelectSeq(table, IsNegative),
      SelectSeq(table, IsNeutral)>>

\* line 230: the literal counted as verified; its first three characters are
\* U+00E2, U+0153 and U+2026
TripVerifiedTag ==
    <<"U+00E2", "U+0153", "U+2026", " ", "T","r","i","p"," ","V","e","r","i","f","i","e","d">>

\* round(n / d * 100, 1), in tenths of a percent: the nearest tenth, the even
\* one of two that are equally near
RoundPercent(n, d) ==
    LET q == (1000 * n) \div d
        r == (1000 * n) % d
    IN  IF 2 * r > d THEN q + 1
        ELSE IF 2 * r < d THEN q
        ELSE IF q % 2 = 0 THEN q ELSE q + 1

\* Series.value_counts().get(value, 0)
ValueCount(table, value) ==
    Cardinality({i \in 1..Len(table) : table[i].verified = value})

IsNotVerified(row) == row.verified = NotVerified

\* lines 235-238: the lines printed for the overall distribution
DistributionLines(total_reviews, verified_reviews, non_verified_reviews) ==
    << [line |-> "Verification Status Distribution:"],
       [line |-> "Total Reviews", count |-> total_reviews],
       [line |-> "Verified Reviews", count |-> verified_reviews,
        percentage |-> RoundPercent(verified_reviews, total_reviews)],
       [line |-> "Non-Verified Reviews", count |-> non_verified_reviews,
        percentage |-> RoundPercent(non_verified_reviews, total_reviews)] >>

\* lines 244-246: the lines printed for the negative reviews
NegativeLines(negative_reviews, negative_non_verified) ==
    << [line |-> "Non-Verified Reviews Among Negative Sentiment:"],
       [line |-> "Total Negative Reviews", count |-> Len(negative_reviews)],
       [line |-> "Non-Verified Negative Reviews", count |-> Len(negative_non_verified),
        percentage |-> RoundPercent(Len(negative_non_verified), Len(negative_reviews))] >>

\* lines 229-246 with the division of line 242 made only for a divisor other
\* than 0
analyse_verification_status_guarded(table) ==
    LET total_reviews == Len(table)
        verified_reviews == ValueCount(table, TripVerifiedTag)
        non_verified_reviews == ValueCount(table, NotVerified)
        negative_reviews == SelectSeq(table, IsNegative)
        negative_non_verified == SelectSeq(negative_reviews, IsNotVerified)
    IN  IF total_reviews = 0
        THEN [tag |-> "ZeroDivisionError", at |-> 232, printed |-> <<>>]
        ELSE IF Len(negative_reviews) = 0
        THEN [tag |-> "ok",
              printed |-> DistributionLines(total_reviews, verified_reviews,
                                            non_verified_reviews)]
        ELSE [tag |-> "ok",
              printed |-> DistributionLines(total_reviews, verified_reviews,
                                            non_verified_reviews)
                            \o NegativeLines(negative_reviews, negative_non_verified)]

\* lines 229-246: analyse_verification_status(data): how the call ends, the
\* line that raised, and what it printed until then. Both divisions are of
\* Python ints when the divisor is 0 (an empty value_counts gives the default
\* 0 of .get), so each raises ZeroDivisionError
analyse_verification_status(table) ==
    LET total_reviews == Len(table)
        verified_reviews == ValueCount(table, TripVerifiedTag)
        non_verified_reviews == ValueCount(table, NotVerified)
        negative_reviews == SelectSeq(table, IsNegative)
        negative_non_verified == SelectSeq(negative_reviews, IsNotVerified)
    IN  IF total_reviews = 0
        THEN [tag |-> "ZeroDivisionError", at |-> 232, printed |-> <<>>]
        ELSE IF Len(negative_reviews) = 0
        THEN [tag |-> "ZeroDivisionError", at |-> 242,
              printed |-> DistributionLines(total_reviews, verified_reviews,
                                            non_verified_reviews)]
        ELSE [tag |-> "ok",
              printed |-> DistributionLines(total_reviews, verified_reviews,
                                            non_verified_reviews)
                            \o NegativeLines(negative_reviews, negative_non_verified)]

----------------------------------------------------------------------------
(* The driver of the sentiment stage: any table of at most MaxScoredRows    *)
(* rows with their polarity scores is labelled, then split by label, or      *)
(* handed to analyse_verification_status.                                    *)

\* most rows of a table handed to nlp_pipeline by its driver
MaxScoredRows == 3

\* polarity scores, in tenths: -1.0, -0.1, 0.0, 0.1, 1.0
Polarities == {-10, -1, 0, 1, 10}

\* values of the Verified column: the two literals counted, and the text of a
\* loaded file, which keeps the spaces around the separator
VerifiedValues ==
    {TripVerifiedTag, NotVerified, <<" ">> \o NotVerified \o <<" ">>}

InitSentiment ==
    /\ pc = "build"
    /\ fs = <<>>
    /\ next_airline = 0
    /\ status = <<>>
    /\ reviews = <<>>
    /\ printed = <<>>
    /\ df = <<>>
    /\ max_reviews = 0
    /\ scraped = <<>>
    /\ data = <<>>
    /\ pieces = 0
    /\ result_df = <<>>
    /\ load_path = None
    /\ fetched = <<>>
    /\ df_processed = <<>>
    /\ sentiment_dfs = <<>>
    /\ report = <<>>
    /\ raw_review = <<>>
    /\ cleaned = <<>>

\* the caller appends a row, with the polarity get_polarity gave its text; the
\* index of a loaded table counts the rows from 0
InputScoredRow ==
    /\ pc = "build"
    /\ Len(df) < MaxScoredRows
    /\ \E v \in VerifiedValues, p \in Polarities :
          df' = Append(df, [index |-> Len(df), verified |-> v, polarity |-> p])
    /\ UNCHANGED <<pc, fs, next_airline, status, reviews, printed, max_reviews, scraped,
                   data, pieces, result_df, load_path, fetched, nlp_vars>>

\* df_processed = nlp_pipeline(df)
NlpPipeline ==
    /\ pc = "build"
    /\ df_processed' = nlp_pipeline(df)
    /\ pc' = "labelled"
    /\ UNCHANGED <<fs, next_airline, status, reviews, printed, df, max_reviews, scraped,
                   data, pieces, result_df, load_path, fetched, sentiment_dfs, report,
                   raw_review, cleaned>>

\* create_sentiment_dataframes(df_processed)
CreateSentimentDataframes ==
    /\ pc = "labelled"
    /\ sentiment_dfs' = create_sentiment_dataframes(df_processed)
    /\ pc' = "partitioned"
    /\ UNCHANGED <<fs, next_airline, status, reviews, printed, df, max_reviews, scraped,
                   data, pieces, result_df, load_path, fetched, df_processed, report,
                   raw_review, cleaned>>

\* analyse_verification_status(df_processed)
AnalyseVerificationStatus ==
    /\ pc = "labelled"
    /\ report' = analyse_verification_status(df_processed)
    /\ pc' = "reported"
    /\ UNCHANGED <<fs, next_airline, status, reviews, printed, df, max_reviews, scraped,
                   data, pieces, result_df, load_path, fetched, df_processed,
                   sentiment_dfs, raw_review, cleaned>>

NextSentiment ==
    \/ InputScoredRow
    \/ NlpPipeline
    \/ CreateSentimentDataframes
    \/ AnalyseVerificationStatus

SpecSentiment == InitSentiment /\ [][NextSentiment]_vars

----------------------------------------------------------------------------
(* Claims about the sentiment stage, checked under SpecSentiment.          *)

Labelled == pc \in {"labelled", "partitioned", "reported"}

\* the index labels of the rows of a table
IndexesOf(table) == {table[i].index : i \in 1..Len(table)}

\* every row of sub is the row of table with its index label, and the rows of
\* sub follow each other as they do in table
InRowOrderOf(sub, table) ==
    /\ \A i \in 1..Len(sub) :
          \E k \in 1..Len(table) : table[k].index = sub[i].index /\ table[k] = sub[i]
    /\ \A i, j \in 1..Len(sub) :
          i < j => \E k, m \in 1..Len(table) :
                      k < m /\ table[k] = sub[i] /\ table[m] = sub[j]

\* C11: the three tables create_sentiment_dataframes returns for a table of
\* nlp_pipeline are pairwise disjoint, together hold every row of the input
\* (their sizes sum to its number of rows), and each keeps its rows in the
\* input's row order.
C11_PartitionDisjointExhaustiveOrdered ==
    pc = "partitioned" =>
        LET positive == sentiment_dfs[1]
            negative == sentiment_dfs[2]
            neutral == sentiment_dfs[3]
        IN  /\ IndexesOf(positive) \cap IndexesOf(negative) = {}
            /\ IndexesOf(positive) \cap IndexesOf(neutral) = {}
            /\ IndexesOf(negative) \cap IndexesOf(neutral) = {}
            /\ IndexesOf(positive) \cup IndexesOf(negative) \cup IndexesOf(neutral)
                  = IndexesOf(df_processed)
            /\ Len(positive) + Len(negative) + Len(neutral) = Len(df_processed)
            /\ InRowOrderOf(positive, df_processed)
            /\ InRowOrderOf(negative, df_processed)
            /\ InRowOrderOf(neutral, df_processed)

\* a split table with a row of each label, the two rows of one label with a
\* row of another label between them
C11_Witness ==
    /\ pc = "partitioned"
    /\ Len(df_processed) = 3
    /\ \E t \in 1..3 :
          /\ Len(sentiment_dfs[t]) = 2
          /\ sentiment_dfs[t][1].index = 0
          /\ sentiment_dfs[t][2].index = 2
          /\ sentiment_dfs[t][1].polarity # sentiment_dfs[t][2].polarity
    /\ \E t \in 1..3 : Len(sentiment_dfs[t]) = 1 /\ sentiment_dfs[t][1].index = 1

\* C12: every row of a labelled table carries exactly one of Positive,
\* Negative and Neutral: Negative exactly when its polarity is below 0,
\* Neutral exactly when it is 0, Positive exactly when it is above 0.
C12_LabelBySignOfPolarity ==
    Labelled =>
        \A i \in 1..Len(df_processed) :
            LET row == df_processed[i]
            IN  /\ row.sentiment \in {"Positive", "Negative", "Neutral"}
                /\ row.sentiment = "Negative" <=> row.polarity < 0
                /\ row.sentiment = "Neutral" <=> row.polarity = 0
                /\ row.sentiment = "Positive" <=> row.polarity > 0

\* a labelled table with a row of polarity 0 labelled Neutral, a row just
\* below 0 labelled Negative and a row just above 0 labelled Positive
C12_Witness ==
    /\ pc = "labelled"
    /\ \E i, j, k \in 1..Len(df_processed) :
          /\ df_processed[i].polarity = 0 /\ df_processed[i].sentiment = "Neutral"
          /\ df_processed[j].polarity = -1 /\ df_processed[j].sentiment = "Negative"
          /\ df_processed[k].polarity = 1 /\ df_processed[k].sentiment = "Positive"

HasNegativeRow == \E i \in 1..Len(df_processed) : df_processed[i].sentiment = "Negative"

\* the overall distribution has been computed and reported
DistributionReported ==
    /\ Len(report.printed) >= 4
    /\ report.printed[2].line = "Total Reviews"
    /\ report.printed[3].line = "Verified Reviews"
    /\ report.printed[4].line = "Non-Verified Reviews"

\* C13 as claimed: whenever the table has no negative row the call ends in a
\* division error, raised only after the overall distribution has been
\* computed and reported; with a negative row and a non-empty table it
\* completes without error.
C13_ErrorOnlyAfterDistribution ==
    pc = "reported" =>
        /\ ~HasNegativeRow =>
              report.tag = "ZeroDivisionError" /\ DistributionReported
        /\ (HasNegativeRow /\ df_processed # <<>>) => report.tag = "ok"

\* C13 as amended: whenever the table has no negative row the call ends in a
\* division error; for a non-empty table it is raised by the division of the
\* negative ratio, after the overall distribution has been computed and
\* reported; for an empty table it is raised by the first percentage, before
\* anything is reported; with a negative row the call completes without error
\* and reports both parts.
C13_ErrorAfterDistributionUnlessEmpty ==
    pc = "reported" =>
        /\ ~HasNegativeRow => report.tag = "ZeroDivisionError"
        /\ (~HasNegativeRow /\ df_processed # <<>>) =>
              /\ DistributionReported
              /\ Len(report.printed) = 4
              /\ report.printed[2].count = Len(df_processed)
        /\ df_processed = <<>> => report.printed = <<>>
        /\ HasNegativeRow =>
              /\ report.tag = "ok"
              /\ DistributionReported
              /\ Len(report.printed) = 7

\* a reported table of three rows, none of them negative, one of them not
\* verified: the call raised after the four lines of the distribution
C13_Witness ==
    /\ pc = "reported"
    /\ Len(df_processed) = 3
    /\ ~HasNegativeRow
    /\ \E i \in 1..3 : df_processed[i].verified = NotVerified
    /\ report.tag = "ZeroDivisionError"
    /\ Len(report.printed) = 4
    /\ report.printed[4].count >= 1

----------------------------------------------------------------------------
(* nlp.py, full_cleaning: the stages of lines 117-122                       *)

\* line 17: words of nltk's English stop word list
STOPWORDS == { <<"t","h","e">>, <<"a">>, <<"s">>, <<"i","s">> }

\* " ".join(words)
RECURSIVE JoinWithSpace(_)
JoinWithSpace(words) ==
    IF words = <<>> THEN <<>>
    ELSE IF Len(words) = 1 THEN words[1]
    ELSE words[1] \o <<" ">> \o JoinWithSpace(Tail(words))

\* lines 20-22: cleaning_stopwords(text)
cleaning_stopwords(t) ==
    LET IsKept(word) == Lower(word) \notin STOPWORDS
    IN  JoinWithSpace(SelectSeq(SplitWhitespace(t), IsKept))

\* string.punctuation; the double quote, the backslash and the grave accent
\* are written by their code points
Punctuation ==
    {"!", "U+0022", "#", "$", "%", "&", "'", "(", ")", "*", "+", ",", "-", ".", "/", ":",
     ";", "<", "=", ">", "?", "@", "[", "U+005C", "]", "^", "_", "U+0060", "{", "|", "}", "~"}

\* lines 25-27: cleaning_punctuations(text)
cleaning_punctuations(t) ==
    LET IsKept(c) == c \notin Punctuation
    IN  SelectSeq(t, IsKept)

\* lines 30-32: cleaning_repeating_chars(text): re.sub with the pattern (.) followed by one or more of the same;
\* a run of one character, other than the line end, becomes that character
RECURSIVE CollapseFrom(_, _)
CollapseFrom(t, i) ==
    IF i > Len(t) THEN <<>>
    ELSE IF i > 1 /\ t[i] = t[i - 1] /\ t[i] # "\n" THEN CollapseFrom(t, i + 1)
    ELSE <<t[i]>> \o CollapseFrom(t, i + 1)

cleaning_repeating_chars(t) == CollapseFrom(t, 1)

\* the literal is at position i of the text
LiteralAt(t, i, literal) ==
    /\ i >= 1
    /\ i + Len(literal) - 1 <= Len(t)
    /\ \A k \in 1..Len(literal) : t[i + k - 1] = literal[k]

\* one or more non-whitespace characters from position i: the position of the last character of the run of
\* characters that are not whitespace, i - 1 when there is none
RECURSIVE NonSpaceRunEnd(_, _)
NonSpaceRunEnd(t, i) ==
    IF i > Len(t) \/ IsSpace(t[i]) THEN i - 1 ELSE NonSpaceRunEnd(t, i + 1)

\* the pattern of line 37 (http, an optional s, ://, or else www and a dot,
\* then one or more non-whitespace characters) tried at position i: the position of the last
\* character of the match, 0 when there is no match at i
UrlMatchEnd(t, i) ==
    LET http == <<"h","t","t","p">>
        colon_slashes == <<":","/","/">>
        www_dot == <<"w","w","w",".">>
    IN  IF /\ LiteralAt(t, i, http \o <<"s">> \o colon_slashes)
           /\ NonSpaceRunEnd(t, i + 8) >= i + 8
        THEN NonSpaceRunEnd(t, i + 8)
        ELSE IF /\ LiteralAt(t, i, http \o colon_slashes)
                /\ NonSpaceRunEnd(t, i + 7) >= i + 7
        THEN NonSpaceRunEnd(t, i + 7)
        ELSE IF /\ LiteralAt(t, i, www_dot)
                /\ NonSpaceRunEnd(t, i + 4) >= i + 4
        THEN NonSpaceRunEnd(t, i + 4)
        ELSE 0

\* lines 35-37: cleaning_urls(text): every match, found from left to right, is
\* replaced by the empty text
RECURSIVE RemoveUrlsFrom(_, _)
RemoveUrlsFrom(t, i) ==
    IF i > Len(t) THEN <<>>
    ELSE IF UrlMatchEnd(t, i) # 0 THEN RemoveUrlsFrom(t, UrlMatchEnd(t, i) + 1)
    ELSE <<t[i]>> \o RemoveUrlsFrom(t, i + 1)

cleaning_urls(t) == RemoveUrlsFrom(t, 1)

Digits == {"0", "1", "2", "3", "4", "5", "6", "7", "8", "9"}

\* lines 40-42: cleaning_numbers(text)
cleaning_numbers(t) ==
    LET IsKept(c) == c \notin Digits
    IN  SelectSeq(t, IsKept)

\* lines 45-47: remove_short_words(text)
remove_short_words(t) ==
    LET IsKept(word) == Len(word) > 2
    IN  JoinWithSpace(SelectSeq(SplitWhitespace(t), IsKept))

\* lines 117-119 without lines 118 and 119: the text of line 117 goes to
\* cleaning_urls as it is
before_cleaning_urls_unstripped(t) == cleaning_stopwords(t)

\* lines 117-119: the text that line 120 hands to cleaning_urls
before_cleaning_urls(t) ==
    cleaning_repeating_chars(cleaning_punctuations(cleaning_stopwords(t)))

\* lines 117-122 of full_cleaning: the text after lines 119, 120 and 122 (line
\* 123, process_tokens, is nltk's tokenizer, stemmer and lemmatizer)
full_cleaning(t) ==
    LET to_urls == before_cleaning_urls(t)
        after_urls == cleaning_urls(to_urls)
    IN  [to_urls |-> to_urls,
         after_urls |-> after_urls,
         short_words |-> remove_short_words(cleaning_numbers(after_urls))]

----------------------------------------------------------------------------
(* The driver of full_cleaning: any review text of at most MaxTextPieces     *)
(* pieces.                                                                   *)

\* most pieces of a text handed to full_cleaning by its driver
MaxTextPieces == 4

ReviewPieces ==
    { <<"h","t","t","p">>, <<"s">>, <<":","/","/","x">>, <<"w","w","w",".","x">>,
      <<" ">>, <<"T","h","e">>, <<"9">> }

InitCleaning ==
    /\ pc = "build"
    /\ fs = <<>>
    /\ next_airline = 0
    /\ status = <<>>
    /\ reviews = <<>>
    /\ printed = <<>>
    /\ df = <<>>
    /\ max_reviews = 0
    /\ scraped = <<>>
    /\ data = <<>>
    /\ pieces = 0
    /\ result_df = <<>>
    /\ load_path = None
    /\ fetched = <<>>
    /\ df_processed = <<>>
    /\ sentiment_dfs = <<>>
    /\ report = <<>>
    /\ raw_review = <<>>
    /\ cleaned = <<>>

\* the caller appends a piece to the review text
InputReviewPiece ==
    /\ pc = "build"
    /\ pieces < MaxTextPieces
    /\ \E piece \in ReviewPieces : raw_review' = raw_review \o piece
    /\ pieces' = pieces + 1
    /\ UNCHANGED <<pc, fs, next_airline, status, reviews, printed, df, max_reviews,
                   scraped, data, result_df, load_path, fetched, df_processed,
                   sentiment_dfs, report, cleaned>>

\* full_cleaning(text)
FullCleaning ==
    /\ pc = "build"
    /\ cleaned' = full_cleaning(raw_review)
    /\ pc' = "cleaned"
    /\ UNCHANGED <<fs, next_airline, status, reviews, printed, df, max_reviews, scraped,
                   data, pieces, result_df, load_path, fetched, df_processed,
                   sentiment_dfs, report, raw_review>>

NextCleaning == InputReviewPiece \/ FullCleaning

SpecCleaning == InitCleaning /\ [][NextCleaning]_vars

----------------------------------------------------------------------------
(* Claims about full_cleaning, checked under SpecCleaning.                 *)

\* some part of the text matches the URL pattern
HoldsUrl(t) == \E i \in 1..Len(t) : UrlMatchEnd(t, i) # 0

\* C15: the text that reaches cleaning_urls inside full_cleaning holds no match
\* of the URL pattern, whatever the input text is, and cleaning_urls returns
\* it unchanged.
C15_UrlStageChangesNothing ==
    pc = "cleaned" =>
        /\ ~HoldsUrl(cleaned.to_urls)
        /\ cleaned.after_urls = cleaned.to_urls

\* a cleaned text whose input held an http URL and a www URL, which
\* cleaning_urls on the input itself would have removed
C15_Witness ==
    /\ pc = "cleaned"
    /\ \E i, j \in 1..Len(raw_review) :
          /\ raw_review[i] = "h" /\ UrlMatchEnd(raw_review, i) # 0
          /\ raw_review[j] = "w" /\ UrlMatchEnd(raw_review, j) # 0
    /\ cleaning_urls(raw_review) # raw_review
    /\ cleaned.to_urls # <<>>

====
